---- MODULE Spec2Model ----
(* Model of ConsoleGestureSystem (src/deepseek_python_20251113_9458e1.py):      *)
(* the geometric classifier detect_gesture, the streak counter                 *)
(* update_gesture_streak, the frame-skipping tick loop of run, and the          *)
(* placeholder dispatcher handle_gesture_command.                               *)
(*                                                                             *)
(* Coordinates are fixed-point hundredths of the normalised [0,1] range, so    *)
(* raise_threshold 0.05 is 5 and cross_threshold 0.15 is 15.                   *)
EXTENDS Integers, Sequences, FiniteSets, TLC

VARIABLES
    pc,             \* "setup_camera" | "constructed" | "loop" | "exited"
    cap,            \* "none" | "open" | "closed" (not opened) | "released"
    frame_count,    \* self.frame_count
    last_gesture,   \* self.last_gesture
    gesture_streak, \* self.gesture_streak
    current_fps,    \* self.current_fps, a reduced fraction [num, den]
    tick,           \* what the latest iteration of the while loop did
    admitted,       \* history: symbols of the admitted frames the engine consumed
    fired,          \* history: calls of handle_gesture_command made by run
    exit,           \* how the process left: "running" | "returned" | "sys_exit_1" | "traceback"
    summary,        \* the session summary cleanup printed (printed = FALSE: none yet)
    cl_landmarks,   \* classifier harness: the landmark sequence given to detect_gesture
    cl_result,      \* classifier harness: "PENDING" or the symbol returned
    cl_second       \* classifier harness: the same for a second call on cl_landmarks

vars == <<pc, cap, frame_count, last_gesture, gesture_streak, current_fps,
          tick, admitted, fired, exit, summary, cl_landmarks, cl_result,
          cl_second>>

-----------------------------------------------------------------------------
(* Bounds of the model *)

\* the loop reads at most this many frames successfully
MaxFrames == 12

\* the same for the long runs on three pose results (LongRunResults)
MaxFramesLong == 16

\* a reading of time.time() - self.start_time is 0..MaxTime clock units; time.time()
\* is the wall clock, so a later reading is not necessarily larger (a reading at or
\* before start_time is 0: the code treats both alike)
MaxTime == 1

\* landmark coordinates of the classifier harness are 5 * (0..MaxCoord) hundredths
MaxCoord == 3

-----------------------------------------------------------------------------
(* Program constants *)

raise_threshold == 5
cross_threshold == 15

\* mp_pose.PoseLandmark.<NAME>.value, the indices detect_gesture reads
LEFT_SHOULDER == 11
RIGHT_SHOULDER == 12
LEFT_ELBOW == 13
RIGHT_ELBOW == 14
LEFT_WRIST == 15
RIGHT_WRIST == 16

\* a full MediaPipe pose has 33 landmarks
PoseLen == 33

\* streak length at which run calls the dispatcher
ConfirmStreak == 3

\* run admits the frames whose frame_count is a multiple of this
AdmitModulus == 2

GestureSymbols ==
    {"NO_GESTURE", "LEFT_HAND_UP", "RIGHT_HAND_UP", "BOTH_HANDS_UP", "CROSSED_ARMS"}

on_commands == {"BOTH_HANDS_UP", "LEFT_HAND_UP"}
off_commands == {"RIGHT_HAND_UP", "CROSSED_ARMS"}

-----------------------------------------------------------------------------
(* Landmark sequences.  A sequence of n landmarks is a function on 0..n-1     *)
(* (Python indexing); landmarks[i] raises IndexError when i >= n.             *)

Pt(px, py) == [x |-> px, y |-> py]

\* the result of self.pose.process: found is the truth value of
\* results.pose_landmarks, landmark is results.pose_landmarks.landmark
NoSubject == [found |-> FALSE, landmark |-> << >>]

Subject(landmarks) == [found |-> TRUE, landmark |-> landmarks]

MkLandmarks(n, ls, rs, le, re, lw, rw) ==
    [i \in 0..(n - 1) |->
        CASE i = LEFT_SHOULDER  -> ls
          [] i = RIGHT_SHOULDER -> rs
          [] i = LEFT_ELBOW     -> le
          [] i = RIGHT_ELBOW    -> re
          [] i = LEFT_WRIST     -> lw
          [] i = RIGHT_WRIST    -> rw
          [] OTHER              -> Pt(0, 0)]

RequiredLandmarks ==
    {LEFT_SHOULDER, RIGHT_SHOULDER, LEFT_WRIST, RIGHT_WRIST, LEFT_ELBOW, RIGHT_ELBOW}

HasAllRequired(landmarks) == \A i \in RequiredLandmarks : i \in DOMAIN landmarks

-----------------------------------------------------------------------------
(* The geometric classifier *)

is_hand_raised(shoulder_y, wrist_y, elbow_y) ==
    LET wrist_above_shoulder == wrist_y < shoulder_y - raise_threshold
        wrist_above_elbow == wrist_y < elbow_y - raise_threshold
    IN  wrist_above_shoulder /\ wrist_above_elbow

Abs(v) == IF v < 0 THEN 0 - v ELSE v

left_raised(landmarks) ==
    is_hand_raised(landmarks[LEFT_SHOULDER].y, landmarks[LEFT_WRIST].y,
                   landmarks[LEFT_ELBOW].y)

right_raised(landmarks) ==
    is_hand_raised(landmarks[RIGHT_SHOULDER].y, landmarks[RIGHT_WRIST].y,
                   landmarks[RIGHT_ELBOW].y)

left_crossed(landmarks) ==
    Abs(landmarks[LEFT_WRIST].x - landmarks[RIGHT_SHOULDER].x) < cross_threshold

right_crossed(landmarks) ==
    Abs(landmarks[RIGHT_WRIST].x - landmarks[LEFT_SHOULDER].x) < cross_threshold

\* a classifier that tests the crossed arms before the two raised hands
classify_crossedFirst(landmarks) ==
    IF left_crossed(landmarks) /\ right_crossed(landmarks) THEN "CROSSED_ARMS"
    ELSE IF left_raised(landmarks) /\ right_raised(landmarks) THEN "BOTH_HANDS_UP"
    ELSE IF left_raised(landmarks) THEN "LEFT_HAND_UP"
    ELSE IF right_raised(landmarks) THEN "RIGHT_HAND_UP"
    ELSE "NO_GESTURE"

\* a classifier that tests the single raised hands before the crossed arms
classify_singleFirst(landmarks) ==
    IF left_raised(landmarks) /\ right_raised(landmarks) THEN "BOTH_HANDS_UP"
    ELSE IF left_raised(landmarks) THEN "LEFT_HAND_UP"
    ELSE IF right_raised(landmarks) THEN "RIGHT_HAND_UP"
    ELSE IF left_crossed(landmarks) /\ right_crossed(landmarks) THEN "CROSSED_ARMS"
    ELSE "NO_GESTURE"

\* the body of the try block of detect_gesture, for a sequence that has every index
classify(landmarks) ==
    IF left_raised(landmarks) /\ right_raised(landmarks) THEN "BOTH_HANDS_UP"
    ELSE IF left_crossed(landmarks) /\ right_crossed(landmarks) THEN "CROSSED_ARMS"
    ELSE IF left_raised(landmarks) THEN "LEFT_HAND_UP"
    ELSE IF right_raised(landmarks) THEN "RIGHT_HAND_UP"
    ELSE "NO_GESTURE"

\* a detect_gesture that smooths: while a streak runs, a frame without a gesture
\* is reported as the gesture of the streak
detect_gesture_smoothed(landmarks) ==
    IF ~HasAllRequired(landmarks) THEN "NO_GESTURE"
    ELSE IF classify(landmarks) = "NO_GESTURE" /\ gesture_streak >= 1 THEN last_gesture
    ELSE classify(landmarks)

\* a detect_gesture whose except clause returns the error text instead
detect_gesture_errorText(landmarks) ==
    IF HasAllRequired(landmarks) THEN classify(landmarks) ELSE "ERROR"

\* detect_gesture: an IndexError of a landmark lookup is caught and gives NO_GESTURE
detect_gesture(landmarks) ==
    IF HasAllRequired(landmarks) THEN classify(landmarks) ELSE "NO_GESTURE"

\* process_frame, from the result of self.pose.process on
process_frame(results) ==
    IF results.found THEN detect_gesture(results.landmark) ELSE "NO_GESTURE"

-----------------------------------------------------------------------------
(* The confirmation engine, the scheduler and the dispatcher *)

\* a streak counter that keeps counting through a change to or from NO_GESTURE
update_gesture_streak_noReset(last, streak, current_gesture) ==
    IF current_gesture = last \/ current_gesture = "NO_GESTURE" \/ last = "NO_GESTURE"
    THEN [last_gesture |-> current_gesture, gesture_streak |-> streak + 1]
    ELSE [last_gesture |-> current_gesture, gesture_streak |-> 1]

\* a streak counter that restarts a streak at 0 instead of 1
update_gesture_streak_resetZero(last, streak, current_gesture) ==
    IF current_gesture = last
    THEN [last_gesture |-> last, gesture_streak |-> streak + 1]
    ELSE [last_gesture |-> current_gesture, gesture_streak |-> 0]

\* update_gesture_streak: the new (last_gesture, gesture_streak); the value
\* returned is the new gesture_streak
update_gesture_streak(last, streak, current_gesture) ==
    IF current_gesture = last
    THEN [last_gesture |-> last, gesture_streak |-> streak + 1]
    ELSE [last_gesture |-> current_gesture, gesture_streak |-> 1]

\* a scheduler that admits the odd frame counts
shouldAdmit_odd(count) == count % AdmitModulus # 0

\* run: if self.frame_count % 2 != 0: continue
shouldAdmit(count) == count % AdmitModulus = 0

confirmed_gesture(current_gesture, confidence_streak) ==
    IF confidence_streak >= ConfirmStreak THEN current_gesture ELSE "NO_GESTURE"

\* a firing test that fires again when the streak reaches twice the threshold
shouldFire_refire(current_gesture, confidence_streak) ==
    /\ confirmed_gesture(current_gesture, confidence_streak) # "NO_GESTURE"
    /\ confidence_streak % ConfirmStreak = 0

\* a firing test that re-fires on every frame at or above the threshold
shouldFire_everyFrame(current_gesture, confidence_streak) ==
    confirmed_gesture(current_gesture, confidence_streak) # "NO_GESTURE"

\* run: the condition under which handle_gesture_command is called
shouldFire(current_gesture, confidence_streak) ==
    /\ confirmed_gesture(current_gesture, confidence_streak) # "NO_GESTURE"
    /\ confidence_streak = ConfirmStreak

\* a dispatcher with RIGHT_HAND_UP among the on commands
handle_gesture_command_rightOn(gesture) ==
    IF gesture \in on_commands \cup {"RIGHT_HAND_UP"} THEN "ON"
    ELSE IF gesture \in off_commands THEN "OFF"
    ELSE "NONE"

\* handle_gesture_command: the action it announces for a gesture
handle_gesture_command(gesture) ==
    IF gesture \in on_commands THEN "ON"
    ELSE IF gesture \in off_commands THEN "OFF"
    ELSE "NONE"

RECURSIVE Gcd(_, _)
Gcd(a, b) == IF b = 0 THEN a ELSE Gcd(b, a % b)

\* calculate_fps: frame_count / elapsed_time if elapsed_time > 0 else 0
calculate_fps(count, elapsed_time) ==
    IF elapsed_time > 0 /\ count > 0
    THEN [num |-> count \div Gcd(count, elapsed_time),
          den |-> elapsed_time \div Gcd(count, elapsed_time)]
    ELSE [num |-> 0, den |-> 1]

\* cleanup: the session summary it prints
cleanup_summary(count, total_time, last) ==
    [printed |-> TRUE, frames |-> count, total_time |-> total_time,
     avg_fps |-> calculate_fps(count, total_time), final_gesture |-> last]

\* cleanup: if self.cap: self.cap.release()
cleanup_cap(c) == IF c = "none" THEN "none" ELSE "released"

-----------------------------------------------------------------------------
(* Inputs of the tick loop *)

\* pose results the loop is run on: no subject, sequences that lack required
\* indices, and one full pose per outcome of the classifier's priority chain
ShortLandmarks(n) ==
    MkLandmarks(n, Pt(60, 50), Pt(40, 50), Pt(65, 70), Pt(35, 70), Pt(70, 30), Pt(30, 30))

FullLandmarks(le, re, lw, rw) == MkLandmarks(PoseLen, Pt(60, 50), Pt(40, 50), le, re, lw, rw)

TickResults ==
    { NoSubject,
      Subject(ShortLandmarks(4)),
      Subject(ShortLandmarks(RIGHT_WRIST)),
      \* arms down
      Subject(FullLandmarks(Pt(65, 70), Pt(35, 70), Pt(70, 90), Pt(30, 90))),
      \* left wrist raised
      Subject(FullLandmarks(Pt(65, 40), Pt(35, 70), Pt(70, 30), Pt(30, 90))),
      \* right wrist raised
      Subject(FullLandmarks(Pt(65, 70), Pt(35, 40), Pt(70, 90), Pt(30, 30))),
      \* both wrists raised
      Subject(FullLandmarks(Pt(65, 40), Pt(35, 40), Pt(70, 30), Pt(30, 30))),
      \* arms crossed, wrists low
      Subject(FullLandmarks(Pt(65, 70), Pt(35, 70), Pt(45, 60), Pt(55, 60))),
      \* arms crossed with the left wrist raised
      Subject(FullLandmarks(Pt(65, 40), Pt(35, 70), Pt(45, 30), Pt(55, 60))),
      \* arms crossed with both wrists raised
      Subject(FullLandmarks(Pt(65, 40), Pt(35, 40), Pt(45, 30), Pt(55, 30))) }


\* the pose results of the long runs: no subject, left wrist raised, right wrist raised
LongRunResults ==
    { NoSubject,
      Subject(FullLandmarks(Pt(65, 40), Pt(35, 70), Pt(70, 30), Pt(30, 90))),
      Subject(FullLandmarks(Pt(65, 70), Pt(35, 40), Pt(70, 90), Pt(30, 30))) }

NoTick ==
    [kind |-> "none", admit |-> FALSE, results |-> NoSubject, gesture |-> "NO_GESTURE",
     streak |-> 0, called |-> FALSE, intent |-> "NONE", fault |-> "none",
     exception |-> "none"]

NoSummary ==
    [printed |-> FALSE, frames |-> 0, total_time |-> 0,
     avg_fps |-> [num |-> 0, den |-> 1], final_gesture |-> "NO_GESTURE"]

-----------------------------------------------------------------------------
(* Initial state: the fields set by __init__ before it calls setup_camera *)

Init ==
    /\ pc = "setup_camera"
    /\ cap = "none"
    /\ frame_count = 0
    /\ last_gesture = "NO_GESTURE"
    /\ gesture_streak = 0
    /\ current_fps = [num |-> 0, den |-> 1]
    /\ tick = NoTick
    /\ admitted = << >>
    /\ fired = << >>
    /\ exit = "running"
    /\ summary = NoSummary
    /\ cl_landmarks = << >>
    /\ cl_result = "PENDING"
    /\ cl_second = "PENDING"

engine == <<last_gesture, gesture_streak>>
history == <<admitted, fired>>
harness == <<cl_landmarks, cl_result, cl_second>>

-----------------------------------------------------------------------------
(* Start-up *)

\* setup_camera: the capture opens
SetupCameraOk ==
    /\ pc = "setup_camera"
    /\ cap' = "open"
    /\ pc' = "constructed"
    /\ UNCHANGED <<frame_count, engine, current_fps, tick, history, exit,
                   summary, harness>>

\* setup_camera: the capture does not open; the handler calls sys.exit(1)
SetupCameraFail ==
    /\ pc = "setup_camera"
    /\ cap' = "closed"
    /\ pc' = "exited"
    /\ exit' = "sys_exit_1"
    /\ UNCHANGED <<frame_count, engine, current_fps, tick, history, summary,
                   harness>>

\* run: the start-up sleep ends and the loop is entered
RunStart ==
    /\ pc = "constructed"
    /\ pc' = "loop"
    /\ UNCHANGED <<cap, frame_count, engine, current_fps, tick, history, exit,
                   summary, harness>>

\* run: KeyboardInterrupt during time.sleep(2), which is outside the try block
InterruptStartup ==
    /\ pc = "constructed"
    /\ pc' = "exited"
    /\ exit' = "traceback"
    /\ UNCHANGED <<cap, frame_count, engine, current_fps, tick, history,
                   summary, harness>>

-----------------------------------------------------------------------------
(* Leaving the loop: the finally clause of run calls cleanup, then run returns *)

\* (total_time is cleanup's reading of the clock)
LeaveLoop(count, last, total_time) ==
    /\ pc' = "exited"
    /\ exit' = "returned"
    /\ cap' = cleanup_cap(cap)
    /\ summary' = cleanup_summary(count, total_time, last)

\* a failed read that skips the tick and goes on with the next read
ReadFail_continue ==
    /\ pc = "loop"
    /\ tick.kind # "read_failed"
    /\ tick' = [NoTick EXCEPT !.kind = "read_failed"]
    /\ UNCHANGED <<pc, cap, frame_count, engine, current_fps, history, exit, summary,
                   harness>>

\* cap.read() reports no success: message, break
ReadFail ==
    /\ pc = "loop"
    /\ tick' = [NoTick EXCEPT !.kind = "read_failed"]
    /\ \E total_time \in 0..MaxTime : LeaveLoop(frame_count, last_gesture, total_time)
    /\ UNCHANGED <<frame_count, engine, current_fps, history, harness>>

\* KeyboardInterrupt while the loop waits in cap.read() or time.sleep(0.01)
InterruptLoop ==
    /\ pc = "loop"
    /\ tick' = [NoTick EXCEPT !.kind = "interrupted", !.exception = "KeyboardInterrupt"]
    /\ \E total_time \in 0..MaxTime : LeaveLoop(frame_count, last_gesture, total_time)
    /\ UNCHANGED <<frame_count, engine, current_fps, history, harness>>

-----------------------------------------------------------------------------
(* One iteration of the while loop on a frame that was read.  An iteration   *)
(* that raises (an Exception, or a KeyboardInterrupt delivered inside it) goes *)
(* to an except clause of run, which only prints, and then to cleanup; the     *)
(* clock is read by calculate_fps and again by cleanup within the same         *)
(* iteration, so both get the same reading.                                    *)

\* a skipped frame that also breaks the running streak
RejectFrame_breaksStreak(maxFrames) ==
    /\ pc = "loop"
    /\ frame_count < maxFrames
    /\ ~shouldAdmit(frame_count + 1)
    /\ frame_count' = frame_count + 1
    /\ last_gesture' = "NO_GESTURE"
    /\ gesture_streak' = 0
    /\ tick' = [NoTick EXCEPT !.kind = "rejected"]
    /\ UNCHANGED <<pc, cap, current_fps, history, exit, summary, harness>>

\* the frame is counted and skipped: frame_count % 2 != 0, continue
RejectFrame(maxFrames) ==
    /\ pc = "loop"
    /\ frame_count < maxFrames
    /\ ~shouldAdmit(frame_count + 1)
    /\ frame_count' = frame_count + 1
    /\ tick' = [NoTick EXCEPT !.kind = "rejected"]
    /\ UNCHANGED <<pc, cap, engine, current_fps, history, exit, summary, harness>>

\* the frame is counted, classified, fed to the streak counter, displayed and,
\* when the firing condition holds, handed to handle_gesture_command
AdmitFrame(inputs, maxFrames) ==
    /\ pc = "loop"
    /\ frame_count < maxFrames
    /\ shouldAdmit(frame_count + 1)
    /\ \E results \in inputs, elapsed_time \in 0..MaxTime :
          LET current_gesture == process_frame(results)
              st == update_gesture_streak(last_gesture, gesture_streak, current_gesture)
              confidence_streak == st.gesture_streak
              call == shouldFire(current_gesture, confidence_streak)
          IN  /\ frame_count' = frame_count + 1
              /\ last_gesture' = st.last_gesture
              /\ gesture_streak' = st.gesture_streak
              /\ current_fps' = calculate_fps(frame_count + 1, elapsed_time)
              /\ admitted' = Append(admitted, current_gesture)
              /\ fired' = IF call
                          THEN Append(fired, [at |-> Len(admitted) + 1,
                                              gesture |-> confirmed_gesture(current_gesture,
                                                                            confidence_streak)])
                          ELSE fired
              /\ tick' = [kind |-> "admitted", admit |-> TRUE, results |-> results,
                          gesture |-> current_gesture, streak |-> confidence_streak,
                          called |-> call,
                          intent |-> IF call
                                     THEN handle_gesture_command(
                                              confirmed_gesture(current_gesture,
                                                                confidence_streak))
                                     ELSE "NONE",
                          fault |-> "none", exception |-> "none"]
    /\ UNCHANGED <<pc, cap, exit, summary, harness>>

\* an exception is raised in process_frame (cv2.cvtColor, self.pose.process),
\* before the streak counter is reached: except clause, then cleanup
AbortInPose(maxFrames) ==
    /\ pc = "loop"
    /\ frame_count < maxFrames
    /\ shouldAdmit(frame_count + 1)
    /\ tick' = [NoTick EXCEPT !.kind = "aborted", !.admit = TRUE,
                              !.fault = "pose", !.exception = "raised"]
    /\ frame_count' = frame_count + 1
    /\ \E total_time \in 0..MaxTime : LeaveLoop(frame_count + 1, last_gesture, total_time)
    /\ UNCHANGED <<engine, current_fps, history, harness>>

\* an exception of print_terminal_display that is contained in its tick
AbortInDisplay_contained(inputs, maxFrames) ==
    /\ pc = "loop"
    /\ frame_count < maxFrames
    /\ shouldAdmit(frame_count + 1)
    /\ \E results \in inputs, elapsed_time \in 0..MaxTime :
          LET current_gesture == process_frame(results)
              st == update_gesture_streak(last_gesture, gesture_streak, current_gesture)
          IN  /\ frame_count' = frame_count + 1
              /\ last_gesture' = st.last_gesture
              /\ gesture_streak' = st.gesture_streak
              /\ current_fps' = calculate_fps(frame_count + 1, elapsed_time)
              /\ admitted' = Append(admitted, current_gesture)
              /\ fired' = fired
              /\ tick' = [kind |-> "aborted", admit |-> TRUE, results |-> results,
                          gesture |-> current_gesture, streak |-> st.gesture_streak,
                          called |-> FALSE, intent |-> "NONE",
                          fault |-> "display", exception |-> "raised"]
    /\ UNCHANGED <<pc, cap, exit, summary, harness>>

\* an exception is raised in print_terminal_display, after the streak counter
\* and calculate_fps have run and before the firing test
AbortInDisplay(inputs, maxFrames) ==
    /\ pc = "loop"
    /\ frame_count < maxFrames
    /\ shouldAdmit(frame_count + 1)
    /\ \E results \in inputs, elapsed_time \in 0..MaxTime :
          LET current_gesture == process_frame(results)
              st == update_gesture_streak(last_gesture, gesture_streak, current_gesture)
          IN  /\ frame_count' = frame_count + 1
              /\ last_gesture' = st.last_gesture
              /\ gesture_streak' = st.gesture_streak
              /\ current_fps' = calculate_fps(frame_count + 1, elapsed_time)
              /\ admitted' = Append(admitted, current_gesture)
              /\ fired' = fired
              /\ tick' = [kind |-> "aborted", admit |-> TRUE, results |-> results,
                          gesture |-> current_gesture, streak |-> st.gesture_streak,
                          called |-> FALSE, intent |-> "NONE",
                          fault |-> "display", exception |-> "raised"]
              /\ LeaveLoop(frame_count + 1, st.last_gesture, elapsed_time)
    /\ UNCHANGED harness

\* an exception is raised inside handle_gesture_command, which run has called
AbortInDispatch(inputs, maxFrames) ==
    /\ pc = "loop"
    /\ frame_count < maxFrames
    /\ shouldAdmit(frame_count + 1)
    /\ \E results \in inputs, elapsed_time \in 0..MaxTime :
          LET current_gesture == process_frame(results)
              st == update_gesture_streak(last_gesture, gesture_streak, current_gesture)
              confidence_streak == st.gesture_streak
          IN  /\ shouldFire(current_gesture, confidence_streak)
              /\ frame_count' = frame_count + 1
              /\ last_gesture' = st.last_gesture
              /\ gesture_streak' = st.gesture_streak
              /\ current_fps' = calculate_fps(frame_count + 1, elapsed_time)
              /\ admitted' = Append(admitted, current_gesture)
              /\ fired' = Append(fired, [at |-> Len(admitted) + 1,
                                         gesture |-> confirmed_gesture(current_gesture,
                                                                       confidence_streak)])
              /\ tick' = [kind |-> "aborted", admit |-> TRUE, results |-> results,
                          gesture |-> current_gesture, streak |-> confidence_streak,
                          called |-> TRUE, intent |-> "NONE",
                          fault |-> "dispatch", exception |-> "raised"]
              /\ LeaveLoop(frame_count + 1, st.last_gesture, elapsed_time)
    /\ UNCHANGED harness

Next ==
    \/ SetupCameraOk
    \/ SetupCameraFail
    \/ RunStart
    \/ InterruptStartup
    \/ ReadFail
    \/ InterruptLoop
    \/ RejectFrame(MaxFrames)
    \/ AdmitFrame(TickResults, MaxFrames)
    \/ AbortInPose(MaxFrames)
    \/ AbortInDisplay(TickResults, MaxFrames)
    \/ AbortInDispatch(TickResults, MaxFrames)

Spec == Init /\ [][Next]_vars

\* longer runs of the same program on fewer distinct poses
NextLong ==
    \/ SetupCameraOk
    \/ SetupCameraFail
    \/ RunStart
    \/ InterruptStartup
    \/ ReadFail
    \/ InterruptLoop
    \/ RejectFrame(MaxFramesLong)
    \/ AdmitFrame(LongRunResults, MaxFramesLong)
    \/ AbortInPose(MaxFramesLong)
    \/ AbortInDisplay(LongRunResults, MaxFramesLong)
    \/ AbortInDispatch(LongRunResults, MaxFramesLong)

SpecLong == Init /\ [][NextLong]_vars

-----------------------------------------------------------------------------
(* The classifier on its own: detect_gesture applied to each landmark sequence *)
(* of a grid of poses and to sequences that are too short                      *)

Coords == {5 * k : k \in 0..MaxCoord}

GridLandmarks ==
    { MkLandmarks(PoseLen, Pt(15, 10), Pt(0, 10), Pt(20, ley), Pt(0, rey),
                  Pt(lwx, lwy), Pt(rwx, rwy)) :
        ley \in Coords, rey \in Coords, lwx \in Coords, lwy \in Coords,
        rwx \in Coords, rwy \in Coords }

TruncatedLandmarks ==
    { [i \in 0..(n - 1) |-> f[i]] :
        n \in {0, 4, LEFT_SHOULDER, RIGHT_WRIST},
        f \in { MkLandmarks(PoseLen, Pt(15, 10), Pt(0, 10), Pt(20, 10), Pt(0, 10),
                            Pt(5, wy), Pt(10, wy)) : wy \in Coords } }

HarnessLandmarks == GridLandmarks \cup TruncatedLandmarks

InitClassify ==
    /\ pc = "classify"
    /\ cap = "none"
    /\ frame_count = 0
    /\ last_gesture = "NO_GESTURE"
    /\ gesture_streak = 0
    /\ current_fps = [num |-> 0, den |-> 1]
    /\ tick = NoTick
    /\ admitted = << >>
    /\ fired = << >>
    /\ exit = "running"
    /\ summary = NoSummary
    /\ cl_landmarks \in HarnessLandmarks
    /\ cl_result = "PENDING"
    /\ cl_second = "PENDING"

Classify ==
    /\ pc = "classify"
    /\ cl_result = "PENDING"
    /\ cl_result' = detect_gesture(cl_landmarks)
    /\ UNCHANGED <<pc, cap, frame_count, engine, current_fps, tick, history,
                   exit, summary, cl_landmarks, cl_second>>

NextClassify == Classify

SpecClassify == InitClassify /\ [][NextClassify]_vars

-----------------------------------------------------------------------------
(* The stand-alone classifier of src/final.py *)

\* the literal 0.05 of its two raised tests, in hundredths
final_raise_threshold == 5

\* the indices it reads: it looks at no elbow
FinalRequired == {LEFT_SHOULDER, RIGHT_SHOULDER, LEFT_WRIST, RIGHT_WRIST}

\* detect_gesture of final.py: the except clause returns the text "ERROR: " followed
\* by the exception's message, written here as "ERROR"
final_detect_gesture(landmarks) ==
    IF \A i \in FinalRequired : i \in DOMAIN landmarks
    THEN LET fl_raised ==
                 landmarks[LEFT_WRIST].y < landmarks[LEFT_SHOULDER].y - final_raise_threshold
             fr_raised ==
                 landmarks[RIGHT_WRIST].y < landmarks[RIGHT_SHOULDER].y - final_raise_threshold
         IN  IF fl_raised /\ fr_raised THEN "BOTH_HANDS_UP"
             ELSE IF fl_raised THEN "LEFT_HAND_UP"
             ELSE IF fr_raised THEN "RIGHT_HAND_UP"
             ELSE "NO_GESTURE"
    ELSE "ERROR"

\* test_landmarks of the demo mode: four landmarks, both wrists above the shoulders
DemoLandmarks ==
    [i \in 0..3 |-> IF i < 2 THEN Pt(50, 50) ELSE Pt(50, 30)]

FinalLandmarks == HarnessLandmarks \cup {DemoLandmarks}

InitFinal ==
    /\ pc = "final"
    /\ cap = "none"
    /\ frame_count = 0
    /\ last_gesture = "NO_GESTURE"
    /\ gesture_streak = 0
    /\ current_fps = [num |-> 0, den |-> 1]
    /\ tick = NoTick
    /\ admitted = << >>
    /\ fired = << >>
    /\ exit = "running"
    /\ summary = NoSummary
    /\ cl_landmarks \in FinalLandmarks
    /\ cl_result = "PENDING"
    /\ cl_second = "PENDING"

FinalClassify ==
    /\ pc = "final"
    /\ cl_result = "PENDING"
    /\ cl_result' = final_detect_gesture(cl_landmarks)
    /\ UNCHANGED <<pc, cap, frame_count, engine, current_fps, tick, history,
                   exit, summary, cl_landmarks, cl_second>>

NextFinal == FinalClassify

SpecFinal == InitFinal /\ [][NextFinal]_vars

-----------------------------------------------------------------------------
(* Properties *)

\* the number of consecutive equal symbols of seq that end at position i
RECURSIVE RunLen(_, _)
RunLen(seq, i) ==
    IF i > 1 /\ seq[i - 1] = seq[i] THEN 1 + RunLen(seq, i - 1) ELSE 1

\* the admitted frames on which run called handle_gesture_command
FiredAt == {fired[k].at : k \in DOMAIN fired}

\* the iteration of admitted frame i got as far as the firing test of run
\* (it did not raise in print_terminal_display)
ReachedFiringTest(i) == ~(i = Len(admitted) /\ tick.fault = "display")

\* C1: on every admitted frame whose iteration reaches the firing test, the
\* dispatcher is called iff the frame's symbol is not NO_GESTURE and the streak
\* after update_gesture_streak is exactly 3; so a streak of one gesture fires once,
\* on its third frame, and not on its 4th, 5th, ... frame, and no frame fires twice.
C1_FiringRule ==
    /\ \A i \in 1..Len(admitted) :
          ReachedFiringTest(i) =>
             (i \in FiredAt <=> (admitted[i] # "NO_GESTURE" /\ RunLen(admitted, i) = 3))
    /\ Cardinality(FiredAt) = Len(fired)
    /\ tick.kind = "admitted" =>
          (tick.called <=> (tick.gesture # "NO_GESTURE" /\ gesture_streak = 3))

\* a gesture held for five admitted frames has fired exactly once, on the third
C1_Witness ==
    /\ tick.kind = "admitted"
    /\ last_gesture = "LEFT_HAND_UP"
    /\ gesture_streak = 5
    /\ Len(admitted) = 5
    /\ fired = <<[at |-> 3, gesture |-> "LEFT_HAND_UP"]>>

\* C3: each call of update_gesture_streak(symbol) increases gesture_streak by 1 and
\* keeps last_gesture when symbol = last_gesture, and otherwise sets last_gesture to
\* symbol and gesture_streak to 1 (also to and from NO_GESTURE); it returns the new
\* gesture_streak.
C3_StreakTransition ==
    [][ admitted' # admitted =>
          /\ admitted' = Append(admitted, tick'.gesture)
          /\ IF tick'.gesture = last_gesture
             THEN gesture_streak' = gesture_streak + 1 /\ last_gesture' = last_gesture
             ELSE gesture_streak' = 1 /\ last_gesture' = tick'.gesture
          /\ tick'.streak = gesture_streak' ]_vars

\* a gesture was broken by NO_GESTURE after NO_GESTURE had been broken by it
C3_Witness ==
    /\ admitted = <<"NO_GESTURE", "RIGHT_HAND_UP", "RIGHT_HAND_UP", "NO_GESTURE">>
    /\ last_gesture = "NO_GESTURE"
    /\ gesture_streak = 1

\* the raised predicate as the specification words it, on one arm's landmarks
WristRaised(shoulder, elbow, wrist) ==
    /\ wrist.y < shoulder.y - raise_threshold
    /\ wrist.y < elbow.y - raise_threshold

BothWristsRaised(lm) ==
    /\ WristRaised(lm[LEFT_SHOULDER], lm[LEFT_ELBOW], lm[LEFT_WRIST])
    /\ WristRaised(lm[RIGHT_SHOULDER], lm[RIGHT_ELBOW], lm[RIGHT_WRIST])

OneWristRaised(lm) ==
    WristRaised(lm[LEFT_SHOULDER], lm[LEFT_ELBOW], lm[LEFT_WRIST])
       # WristRaised(lm[RIGHT_SHOULDER], lm[RIGHT_ELBOW], lm[RIGHT_WRIST])

\* the crossed predicate as the specification words it:
\* |leftWrist.x - rightShoulder.x| and |rightWrist.x - leftShoulder.x| below the threshold
Near(a, b) == a - b < cross_threshold /\ b - a < cross_threshold

BothCrossed(lm) ==
    /\ Near(lm[LEFT_WRIST].x, lm[RIGHT_SHOULDER].x)
    /\ Near(lm[RIGHT_WRIST].x, lm[LEFT_SHOULDER].x)

Classified == cl_result # "PENDING" /\ HasAllRequired(cl_landmarks)

\* C2: a landmark frame in which both wrists are raised is classified BOTH_HANDS_UP,
\* whether or not the crossed-arms predicate holds as well.
C2_BothHandsPriority ==
    (Classified /\ BothWristsRaised(cl_landmarks)) => cl_result = "BOTH_HANDS_UP"

\* both wrists raised and both wrists near the opposite shoulder
C2_Witness ==
    /\ Classified
    /\ BothWristsRaised(cl_landmarks)
    /\ BothCrossed(cl_landmarks)
    /\ cl_result = "BOTH_HANDS_UP"

\* C8: a landmark frame in which both crossed predicates hold and not both wrists
\* are raised is classified CROSSED_ARMS, with no wrist or with one wrist raised.
C8_CrossedShadowsSingle ==
    (Classified /\ BothCrossed(cl_landmarks) /\ ~BothWristsRaised(cl_landmarks))
       => cl_result = "CROSSED_ARMS"

\* crossed arms with exactly one wrist raised
C8_Witness ==
    /\ Classified
    /\ BothCrossed(cl_landmarks)
    /\ OneWristRaised(cl_landmarks)
    /\ cl_result = "CROSSED_ARMS"

ScenarioB ==
    <<"LEFT_HAND_UP", "LEFT_HAND_UP", "NO_GESTURE",
      "LEFT_HAND_UP", "LEFT_HAND_UP", "LEFT_HAND_UP">>

IsPrefix(p, seq) == Len(p) <= Len(seq) /\ \A i \in 1..Len(p) : p[i] = seq[i]

\* C4: between two firings for the same symbol g there is an admitted frame with
\* another symbol, followed by three consecutive admitted frames of g that end at
\* the second firing; and on the admitted symbols LEFT_HAND_UP, LEFT_HAND_UP,
\* NO_GESTURE, LEFT_HAND_UP, LEFT_HAND_UP, LEFT_HAND_UP nothing fires on frames 1-5
\* and exactly one firing happens, on frame 6 (when its iteration reaches the
\* firing test).
C4_RefireNeedsBreak ==
    /\ \A i, j \in DOMAIN fired :
          (i < j /\ fired[i].gesture = fired[j].gesture) =>
             /\ \E k \in (fired[i].at + 1)..(fired[j].at - ConfirmStreak) :
                   admitted[k] # fired[i].gesture
             /\ \A m \in (fired[j].at - ConfirmStreak + 1)..fired[j].at :
                   admitted[m] = fired[j].gesture
    /\ \A n \in 1..Len(ScenarioB) :
          (IsPrefix(SubSeq(ScenarioB, 1, n), admitted) /\ ReachedFiringTest(n)) =>
             {a \in FiredAt : a <= n} = IF n = Len(ScenarioB) THEN {n} ELSE {}

\* a gesture fired, was broken by one NO_GESTURE frame, was held for three more
\* frames and fired again
C4_Witness ==
    /\ admitted = <<"LEFT_HAND_UP", "LEFT_HAND_UP", "LEFT_HAND_UP", "NO_GESTURE",
                    "LEFT_HAND_UP", "LEFT_HAND_UP", "LEFT_HAND_UP">>
    /\ fired = <<[at |-> 3, gesture |-> "LEFT_HAND_UP"],
                 [at |-> 7, gesture |-> "LEFT_HAND_UP"]>>

\* C5 as stated: after a failed read the tick loop continues with the next read.
C5_LoopContinues == tick.kind = "read_failed" => pc = "loop"

\* C5, amended: a failed read counts no frame, leaves the confirmation state and the
\* fps alone and dispatches nothing, and it ends the tick loop: cleanup runs and run
\* returns.
C5_FailedReadEndsLoop ==
    [][ tick'.kind = "read_failed" =>
          /\ UNCHANGED <<frame_count, last_gesture, gesture_streak, current_fps,
                         admitted, fired>>
          /\ ~tick'.admit /\ ~tick'.called
          /\ pc' = "exited" /\ exit' = "returned"
          /\ summary'.printed /\ cap' = "released" ]_vars

\* a read failed in the middle of a streak
C5_Witness ==
    /\ tick.kind = "read_failed"
    /\ frame_count = 4
    /\ last_gesture = "BOTH_HANDS_UP"
    /\ gesture_streak = 2
    /\ pc = "exited"

\* C6 as stated: a failure raised inside a tick leaves the loop running.
C6_FailureContained == tick.kind = "aborted" => pc = "loop"

\* C6, amended: a failure of a landmark lookup in detect_gesture is contained in its
\* tick (the symbol is NO_GESTURE and the loop goes on); any other failure raised
\* inside a tick (pose processing, status display or handle_gesture_command) does not
\* propagate out of run, but it ends the tick loop: run's except clause catches it,
\* cleanup runs, run returns and no further frame is processed.  A failed camera
\* set-up ends the process with exit status 1 before any frame is read.
C6_FailureEndsLoop ==
    /\ (tick.kind = "admitted" /\ tick.results.found
          /\ ~HasAllRequired(tick.results.landmark)) =>
          (pc = "loop" /\ exit = "running" /\ tick.gesture = "NO_GESTURE")
    /\ tick.kind = "aborted" =>
          /\ pc = "exited" /\ exit = "returned"
          /\ summary.printed /\ summary.frames = frame_count
          /\ cap = "released"
          /\ ~ENABLED Next
    /\ exit = "sys_exit_1" => (pc = "exited" /\ frame_count = 0 /\ tick = NoTick)

\* handle_gesture_command raised on the third frame of a streak
C6_Witness ==
    /\ tick.kind = "aborted"
    /\ tick.fault = "dispatch"
    /\ tick.called
    /\ gesture_streak = 3
    /\ pc = "exited"

\* the pose result has no subject, or its landmark sequence lacks a required index
NothingToClassify(results) == ~results.found \/ ~HasAllRequired(results.landmark)

\* C7: on an admitted frame whose pose result has no subject or lacks a required
\* landmark index, process_frame returns NO_GESTURE without raising, and the
\* streak counter consumes it as a NO_GESTURE frame.
C7_FailsClosed ==
    [][ (frame_count' # frame_count /\ tick'.admit /\ tick'.fault # "pose"
           /\ NothingToClassify(tick'.results)) =>
          /\ tick'.gesture = "NO_GESTURE"
          /\ admitted' = Append(admitted, "NO_GESTURE")
          /\ last_gesture' = "NO_GESTURE"
          /\ gesture_streak' = IF last_gesture = "NO_GESTURE" THEN gesture_streak + 1 ELSE 1
          /\ tick'.streak = gesture_streak'
          /\ ~tick'.called ]_vars

\* a landmark sequence without the right wrist broke a streak of two
C7_Witness ==
    /\ tick.kind = "admitted"
    /\ tick.results.found
    /\ ~HasAllRequired(tick.results.landmark)
    /\ admitted = <<"LEFT_HAND_UP", "LEFT_HAND_UP", "NO_GESTURE">>
    /\ gesture_streak = 1
    /\ pc = "loop"

\* C9: a captured frame is admitted iff its frame_count, incremented before the
\* test, is even; so of two consecutive captured frames exactly one is admitted,
\* whatever the fps, the clock readings and the streak.
C9_AdmitEvenFrames ==
    [][ frame_count' # frame_count =>
          /\ frame_count' = frame_count + 1
          /\ tick'.admit <=> (frame_count' % 2 = 0)
          /\ frame_count >= 1 => tick'.admit # tick.admit ]_vars

\* the fourth captured frame was admitted in the middle of a streak, with time elapsed
C9_Witness ==
    /\ frame_count = 4
    /\ tick.kind = "admitted"
    /\ gesture_streak = 2
    /\ current_fps.num > 0

\* C10: handle_gesture_command is called only with the symbol of the current
\* admitted frame, which equals last_gesture and is never NO_GESTURE (a NO_GESTURE
\* streak of length 3 calls nothing), and it maps BOTH_HANDS_UP and LEFT_HAND_UP to
\* ON, RIGHT_HAND_UP and CROSSED_ARMS to OFF.
C10_Dispatch ==
    /\ \A k \in DOMAIN fired :
          /\ fired[k].gesture # "NO_GESTURE"
          /\ fired[k].gesture = admitted[fired[k].at]
    /\ tick.called =>
          /\ fired # << >>
          /\ fired[Len(fired)].at = Len(admitted)
          /\ fired[Len(fired)].gesture = tick.gesture
          /\ tick.gesture = last_gesture
    /\ (tick.kind = "admitted" /\ tick.called) =>
          /\ tick.gesture \in {"BOTH_HANDS_UP", "LEFT_HAND_UP"} => tick.intent = "ON"
          /\ tick.gesture \in {"RIGHT_HAND_UP", "CROSSED_ARMS"} => tick.intent = "OFF"
    /\ (tick.kind = "admitted" /\ last_gesture = "NO_GESTURE") => ~tick.called

\* a NO_GESTURE streak of length 3 after RIGHT_HAND_UP had fired: nothing is called
C10_Witness ==
    /\ tick.kind = "admitted"
    /\ admitted = <<"RIGHT_HAND_UP", "RIGHT_HAND_UP", "RIGHT_HAND_UP",
                    "NO_GESTURE", "NO_GESTURE", "NO_GESTURE">>
    /\ gesture_streak = 3
    /\ fired = <<[at |-> 3, gesture |-> "RIGHT_HAND_UP"]>>
    /\ ~tick.called

\* C11: whenever the process has ended after start-up began (interrupt during run,
\* failed read, exception in a tick, camera set-up failure), the capture was
\* released and the session summary was printed.
C11_AlwaysCleanup ==
    pc = "exited" => (summary.printed /\ cap = "released")

\* C13: a captured frame that the scheduler rejects only increments frame_count:
\* last_gesture, gesture_streak and current_fps keep their values, and nothing is
\* classified, fed to the streak counter or dispatched.
C13_RejectedFrameOnlyCounts ==
    [][ (frame_count' # frame_count /\ ~tick'.admit) =>
          /\ tick'.kind = "rejected"
          /\ frame_count' = frame_count + 1
          /\ UNCHANGED <<last_gesture, gesture_streak, current_fps, admitted, fired>>
          /\ UNCHANGED <<pc, cap, exit, summary>>
          /\ ~tick'.called ]_vars

\* a frame was rejected in the middle of a streak, which the next frames extended
C13_Witness ==
    /\ tick.kind = "rejected"
    /\ frame_count = 5
    /\ last_gesture = "CROSSED_ARMS"
    /\ gesture_streak = 2
    /\ Len(admitted) = 2

\* C14: before any admitted frame the confirmation state is (NO_GESTURE, 0); after
\* n >= 1 admitted frames last_gesture is the n-th admitted symbol and gesture_streak
\* is the length of the longest suffix of the admitted symbols equal to it, between
\* 1 and n; also when the first admitted symbols are NO_GESTURE.
C14_StreakIsSuffixLength ==
    LET n == Len(admitted)
    IN  /\ n = 0 => (last_gesture = "NO_GESTURE" /\ gesture_streak = 0)
        /\ n >= 1 =>
              /\ last_gesture = admitted[n]
              /\ gesture_streak = RunLen(admitted, n)
              /\ 1 <= gesture_streak /\ gesture_streak <= n

\* the first two admitted frames are NO_GESTURE, then a gesture is held twice
C14_Witness ==
    /\ admitted = <<"NO_GESTURE", "NO_GESTURE", "BOTH_HANDS_UP", "BOTH_HANDS_UP">>
    /\ last_gesture = "BOTH_HANDS_UP"
    /\ gesture_streak = 2

-----------------------------------------------------------------------------
(* Two calls of detect_gesture on one landmark sequence, made at different    *)
(* moments of a run                                                           *)

\* the state detect_gesture is called in after k admitted frames that ended in a
\* streak of gesture g: frame_count has been incremented for the frame in hand
CallContexts ==
    { [last_gesture |-> "NO_GESTURE", gesture_streak |-> 0,
       frame_count |-> AdmitModulus, current_fps |-> calculate_fps(0, 0)] }
    \cup
    { [last_gesture |-> g, gesture_streak |-> k,
       frame_count |-> AdmitModulus * (k + 1),
       current_fps |-> calculate_fps(AdmitModulus * k, t)] :
        g \in GestureSymbols, k \in 1..ConfirmStreak, t \in 0..MaxTime }

\* the landmark sequences of the tick loop's inputs, and the truncated ones
TwoCallLandmarks ==
    {r.landmark : r \in {q \in TickResults : q.found}} \cup TruncatedLandmarks

InitTwoCalls ==
    /\ pc = "first_call"
    /\ cap = "open"
    /\ \E c \in CallContexts :
          /\ last_gesture = c.last_gesture
          /\ gesture_streak = c.gesture_streak
          /\ frame_count = c.frame_count
          /\ current_fps = c.current_fps
    /\ tick = NoTick
    /\ admitted = << >>
    /\ fired = << >>
    /\ exit = "running"
    /\ summary = NoSummary
    /\ cl_landmarks \in TwoCallLandmarks
    /\ cl_result = "PENDING"
    /\ cl_second = "PENDING"

\* the first call
FirstCall ==
    /\ pc = "first_call"
    /\ cl_result' = detect_gesture(cl_landmarks)
    /\ pc' = "between"
    /\ UNCHANGED <<cap, frame_count, engine, current_fps, tick, history, exit,
                   summary, cl_landmarks, cl_second>>

\* the iterations of the loop between the two calls: more frames are counted and
\* the confirmation state and the fps move on
BetweenCalls ==
    /\ pc = "between"
    /\ \E c \in CallContexts :
          /\ c.frame_count > frame_count
          /\ last_gesture' = c.last_gesture
          /\ gesture_streak' = c.gesture_streak
          /\ frame_count' = c.frame_count
          /\ current_fps' = c.current_fps
    /\ pc' = "second_call"
    /\ UNCHANGED <<cap, tick, history, exit, summary, harness>>

\* the second call, on the same landmark sequence
SecondCall ==
    /\ pc = "second_call"
    /\ cl_second' = detect_gesture(cl_landmarks)
    /\ pc' = "called_twice"
    /\ UNCHANGED <<cap, frame_count, engine, current_fps, tick, history, exit,
                   summary, cl_landmarks, cl_result>>

NextTwoCalls ==
    \/ FirstCall
    \/ BetweenCalls
    \/ SecondCall

SpecTwoCalls == InitTwoCalls /\ [][NextTwoCalls]_vars

C15_FinalReturnsSymbol ==
    cl_result # "PENDING" =>
       /\ cl_result \in GestureSymbols
       /\ (\E i \in FinalRequired : i \notin DOMAIN cl_landmarks) => cl_result = "NO_GESTURE"

====
